---- MODULE Spec2Model ----
(***************************************************************************)
(* Model of the VideoAnalyst component (src/unnamed/part_000): the file    *)
(* selection handler, the runAnalysis pipeline (resumable upload, status   *)
(* polling, inference with retry, response extraction) and the progress    *)
(* effect.  Each action is one synchronous stretch of the code between two *)
(* suspension points (user event, timer, network response).                *)
(*                                                                         *)
(* Strings that the code builds are kept as sequences of string fragments; *)
(* the messages of inference errors are spelled character by character so  *)
(* that String.prototype.includes is a real substring search.              *)
(* A response text is a sequence of lexical tokens.                        *)
(* progress is kept in tenths of a percent (the code steps by 2.5/1.5/0.5).*)
(***************************************************************************)
EXTENDS Integers, Sequences, FiniteSets, TLC

VARIABLES
  apiKey,        \* process.env.API_KEY || ""           (line 312)
  file,          \* useState<File|null>: the size in bytes, or NoFile
  isAnalyzing,   \* useState(false)
  analysisData,  \* useState<AnalysisData|null>
  error,         \* useState<string|null>
  errorDetails,  \* useState<string|null>
  rawResponse,   \* useState<string>("")
  activeTab,     \* useState('events')
  progress,      \* useState(0), in tenths of a percent
  loadingStage,  \* useState("Initializing...")
  retryCount,    \* useState(0)
  runs           \* the invocations of runAnalysis: locals and position

vars == <<apiKey, file, isAnalyzing, analysisData, error, errorDetails,
          rawResponse, activeTab, progress, loadingStage, retryCount, runs>>

----------------------------------------------------------------------------
(* Bounds of the model *)

\* the server answers PROCESSING at most this many times to one run
MaxProcessing == 2

\* where two invocations run together, the progress timer is followed while
\* progress (in tenths of a percent) is below this value
MaxTickedProgress == 50

\* identities of the runAnalysis invocations that may be in flight together
RunIds == {"r1", "r2"}

\* the part of RunIds used where one invocation runs at a time
SoloIds == {"r1"}

----------------------------------------------------------------------------
(* Program constants *)

\* a limit one MB too high
MAX_FILE_SIZE_MB_Off == 2000 + 1

MAX_FILE_SIZE_MB == 2000

\* one attempt too many
MAX_RETRIES_Four == 3 + 1

MAX_RETRIES == 3

POLL_INTERVAL_MS == 2000

BACKOFF_BASE_MS == 2000

MiB == 1024 * 1024

INLINE_LIMIT == 20 * 1024 * 1024

NoFile == 0

\* JS null / undefined of a string-valued state
Null == <<>>

\* a file offered by the file picker: its size in bytes
FileSizes ==
  { 5 * MiB, 20 * MiB, 20 * MiB + 1, 2000 * MiB, 2000 * MiB + 1 }

RaceSizes == { 5 * MiB, 50 * MiB, 2000 * MiB + 1 }

----------------------------------------------------------------------------
(* Small helpers of the language runtime *)

Min(a, b) == IF a < b THEN a ELSE b

Pow2(n) == IF n = 0 THEN 1 ELSE IF n = 1 THEN 2 ELSE IF n = 2 THEN 4 ELSE 8

\* String.prototype.includes on fragment sequences
Includes(s, sub) ==
  \E i \in 0..(Len(s) - Len(sub)) :
     \A j \in 1..Len(sub) : s[i + j] = sub[j]

\* (size / 1024 / 1024).toFixed(1): rounds to one decimal, ties upwards
ToFixed1MB(size) ==
  LET whole  == size \div MiB
      rem    == size % MiB
      tenths == (rem * 10 + MiB \div 2) \div MiB
  IN  IF tenths = 10
        THEN ToString(whole + 1) \o ".0"
        ELSE ToString(whole) \o "." \o ToString(tenths)

----------------------------------------------------------------------------
(* Response texts and the extractor (tryParseJSON, lines 363-375).         *)
(* Tokens: "{" "}" "," the code fence "fence" (three backquotes), the tag "json", white space " ",   *)
(* a word of prose "x", the scalars "null" and "1", and three members of   *)
(* an object, each standing for the text of one "key": value pair:         *)
(* "P" a non-empty player_analysis, "T" a non-empty tactical_insights,     *)
(* "m" any other member.                                                   *)

Members == {"P", "T", "m"}

JsNull == [kind |-> "null"]

StripWs(s) == SelectSeq(s, LAMBDA t : t # " ")

IsMemberList(u) ==
  \/ Len(u) = 0
  \/ /\ Len(u) % 2 = 1
     /\ \A i \in 1..Len(u) :
          IF i % 2 = 1 THEN u[i] \in Members ELSE u[i] = ","

\* JSON.parse: [ok |-> FALSE] stands for the SyntaxError it throws
JSONParse(s) ==
  LET t == StripWs(s) IN
  IF t = <<"null">> THEN [ok |-> TRUE, value |-> JsNull]
  ELSE IF t = <<"1">> THEN [ok |-> TRUE, value |-> [kind |-> "number"]]
  ELSE IF /\ Len(t) >= 2
          /\ t[1] = "{"
          /\ t[Len(t)] = "}"
          /\ IsMemberList(SubSeq(t, 2, Len(t) - 1))
    THEN [ok |-> TRUE,
          value |-> [kind |-> "object",
                     members |-> SelectSeq(SubSeq(t, 2, Len(t) - 1),
                                           LAMBDA x : x \in Members)]]
  ELSE [ok |-> FALSE]

\* String.prototype.indexOf / lastIndexOf, 0-based, -1 when absent
IndexOf(s, c) ==
  IF \E i \in 1..Len(s) : s[i] = c
    THEN (CHOOSE i \in 1..Len(s) :
            s[i] = c /\ \A j \in 1..(i - 1) : s[j] # c) - 1
    ELSE -1

LastIndexOf(s, c) ==
  IF \E i \in 1..Len(s) : s[i] = c
    THEN (CHOOSE i \in 1..Len(s) :
            s[i] = c /\ \A j \in (i + 1)..Len(s) : s[j] # c) - 1
    ELSE -1

\* String.prototype.substring(a, b): 0-based, clamps, swaps when a > b
Substring(s, a, b) ==
  LET ca == IF a < 0 THEN 0 ELSE Min(a, Len(s))
      cb == IF b < 0 THEN 0 ELSE Min(b, Len(s))
      lo == Min(ca, cb)
      hi == IF ca < cb THEN cb ELSE ca
  IN  SubSeq(s, lo + 1, hi)

\* text.match of the fence pattern (line 366): the leftmost fence that has a
\* later fence opens; an optional tag and white space are skipped; the lazy
\* group ends before the white space in front of the next fence.
MarkdownMatch(text) ==
  LET open == IndexOf(text, "fence") + 1
      afterTag == IF open + 1 <= Len(text) /\ text[open + 1] = "json"
                    THEN open + 2 ELSE open + 1
      HasClose == open >= 1 /\ \E j \in afterTag..Len(text) : text[j] = "fence"
      close == CHOOSE j \in afterTag..Len(text) :
                 text[j] = "fence" /\ \A k \in afterTag..(j - 1) : text[k] # "fence"
      from == CHOOSE k \in afterTag..close :
                 /\ \A q \in afterTag..(k - 1) : text[q] = " "
                 /\ (k = close \/ text[k] # " ")
      to == CHOOSE p \in from..close :
                 /\ \A q \in p..(close - 1) : text[q] = " "
                 /\ \A p2 \in from..(p - 1) :
                      \E q \in p2..(close - 1) : text[q] # " "
  IN  IF HasClose
        THEN [found |-> TRUE, inner |-> SubSeq(text, from, to - 1)]
        ELSE [found |-> FALSE]

\* an extractor that answers an empty document when nothing parses
tryParseJSON_Lenient(text) ==
  IF JSONParse(text).ok THEN JSONParse(text)
  ELSE [ok |-> TRUE, value |-> [kind |-> "object", members |-> <<>>]]

\* tryParseJSON: [ok |-> FALSE] stands for the Error it throws
tryParseJSON(text) ==
  LET direct == JSONParse(text)
      md == MarkdownMatch(text)
      fenced == IF md.found THEN JSONParse(md.inner) ELSE [ok |-> FALSE]
      firstOpenBrace == IndexOf(text, "{")
      lastCloseBrace == LastIndexOf(text, "}")
      sliced == IF firstOpenBrace # -1 /\ lastCloseBrace # -1
                  THEN JSONParse(Substring(text, firstOpenBrace,
                                           lastCloseBrace + 1))
                  ELSE [ok |-> FALSE]
  IN  IF direct.ok THEN direct
      ELSE IF fenced.ok THEN fenced
      ELSE IF sliced.ok THEN sliced
      ELSE [ok |-> FALSE]

\* the texts an inference call may return (response.text || "")
ResponseTexts ==
  { <<>>,
    <<"{", "P", ",", "T", "}">>,
    <<"fence", "json", " ", "{", "T", "}", " ", "fence">>,
    <<"x", " ", "{", "m", "}", " ", "x">>,
    <<"x">>,
    <<"null">>,
    <<"{", "x", "}", " ", "{", "P", "}">>,
    <<"}", "1", "{">> }

RaceTexts == { <<"{", "P", ",", "T", "}">>, <<"x">> }

----------------------------------------------------------------------------
(* Errors: the fields the code reads of a thrown value.  status and code   *)
(* are 0 when the property is undefined; message is Null when it is        *)
(* undefined or empty.                                                     *)

NoErr == [name |-> "none", status |-> 0, code |-> 0, message |-> Null]

\* new Error(msg)
MkError(msg) ==
  [name |-> "Error", status |-> 0, code |-> 0, message |-> <<msg>>]

\* the failures of an inference call (ai.models.generateContent rejects)
E503 ==
  [name |-> "ApiError", status |-> 503, code |-> 0,
   message |-> <<"b", "u", "s", "y">>]

E429 ==
  [name |-> "ApiError", status |-> 429, code |-> 0,
   message |-> <<"q", "u", "o", "t", "a">>]

ECode503 ==
  [name |-> "Error", status |-> 0, code |-> 503, message |-> Null]

EOverloaded ==
  [name |-> "Error", status |-> 0, code |-> 0,
   message |-> <<"i", "s", " ", "o", "v", "e", "r", "l", "o", "a", "d", "e",
                 "d", ".">>]

EFetch ==
  [name |-> "TypeError", status |-> 0, code |-> 0,
   message |-> <<"F", "a", "i", "l", "e", "d", " ", "t", "o", " ", "f", "e",
                 "t", "c", "h">>]

E400 ==
  [name |-> "ApiError", status |-> 400, code |-> 0,
   message |-> <<"b", "a", "d">>]

ECapital ==
  [name |-> "Error", status |-> 0, code |-> 0,
   message |-> <<"O", "v", "e", "r", "l", "o", "a", "d", "e", "d">>]

InferErrors == {E503, E429, ECode503, EOverloaded, EFetch, E400, ECapital}

RaceErrors == {E503, E400}

\* response.json() rejects on a malformed body
ESyntax ==
  [name |-> "SyntaxError", status |-> 0, code |-> 0,
   message |-> <<"Unexpected token < in JSON">>]

\* the value FileReader.onerror rejects with: an event, not an Error
EReader ==
  [name |-> "ProgressEvent", status |-> 0, code |-> 0, message |-> Null]

\* json.player_analysis when json is null
ENullRead ==
  [name |-> "TypeError", status |-> 0, code |-> 0,
   message |-> <<"Cannot read properties of null">>]

\* JSON.stringify(err): the enumerable own properties (of an event: isTrusted)
Stringify(e) ==
  LET st == IF e.status # 0 THEN "\"status\":" \o ToString(e.status) ELSE ""
      cd == IF e.code # 0 THEN "\"code\":" \o ToString(e.code) ELSE ""
      sep == IF e.status # 0 /\ e.code # 0 THEN "," ELSE ""
  IN  IF e.name = "ProgressEvent" THEN <<"{\"isTrusted\":true}">>
      ELSE <<"{" \o st \o sep \o cd \o "}">>

\* err.message || JSON.stringify(err)                       (line 533)
Details(e) == IF e.message # Null THEN e.message ELSE Stringify(e)

\* isRetryable without the 429 tests
isRetryable_No429(err) ==
  \/ err.status = 503 \/ err.code = 503
  \/ Includes(err.message, <<"o", "v", "e", "r", "l", "o", "a", "d", "e", "d">>)
  \/ Includes(err.message, <<"f", "e", "t", "c", "h">>)

\* isRetryable                                              (lines 507-509)
isRetryable(err) ==
  \/ err.status = 503 \/ err.code = 503
  \/ err.status = 429 \/ err.code = 429
  \/ Includes(err.message, <<"o", "v", "e", "r", "l", "o", "a", "d", "e", "d">>)
  \/ Includes(err.message, <<"f", "e", "t", "c", "h">>)

\* a linear backoff
BackoffDelay_Linear(attempt) == attempt * BACKOFF_BASE_MS

\* Math.pow(2, attempt) * 2000                              (line 513)
BackoffDelay(attempt) == Pow2(attempt) * BACKOFF_BASE_MS

\* the boundary taken as large
isLargeFile_Inclusive(size) == size >= INLINE_LIMIT

\* file.size > 20 * 1024 * 1024                             (line 398)
isLargeFile(size) == size > INLINE_LIMIT

\* the label of the first retry, whatever the attempt
RetryStage_Fixed(attempt) ==
  "Retrying analysis (Attempt 2/" \o ToString(MAX_RETRIES) \o ")..."

\* setLoadingStage(`Retrying analysis (Attempt ${attempt + 1}/${MAX_RETRIES})...`)
RetryStage(attempt) ==
  "Retrying analysis (Attempt " \o ToString(attempt + 1) \o "/"
     \o ToString(MAX_RETRIES) \o ")..."

----------------------------------------------------------------------------
(* What the remote endpoints may answer *)

UploadStartOutcomes ==
  { [kind |-> "ok", url |-> "https://upload/session/1"],
    [kind |-> "ok", url |-> "https://upload/session/2"],
    [kind |-> "notOk", status |-> 403, body |-> "denied"],
    [kind |-> "noUrl"],
    [kind |-> "throw", err |-> EFetch] }

UploadBytesOutcomes ==
  { [kind |-> "ok", name |-> "files/abc", uri |-> "https://files/abc"],
    [kind |-> "notOk", status |-> 500, body |-> "oops"],
    [kind |-> "throw", err |-> ESyntax] }

RemoteStates == {"PROCESSING", "ACTIVE", "FAILED", "STATE_UNSPECIFIED"}

StatusOutcomes ==
  { [kind |-> "ok", state |-> st] : st \in RemoteStates }
    \cup { [kind |-> "notOk"], [kind |-> "throw", err |-> ESyntax] }

\* getFileState (lines 70-77): the state it resolves to, or the error
getFileState(out) ==
  IF out.kind = "throw" THEN [threw |-> TRUE, err |-> out.err]
  ELSE IF out.kind = "notOk" THEN [threw |-> FALSE, state |-> "UNKNOWN"]
  ELSE [threw |-> FALSE, state |-> out.state]

----------------------------------------------------------------------------
(* One invocation of runAnalysis: its position, its locals, and a record   *)
(* of what it has done (calls, delays, sleeps, polls, net, stages) and of   *)
(* how its session start was answered (started) and where its bytes were   *)
(* sent (putUrl), and of whether it was started on the failure of an        *)
(* earlier run (rerun), and of the video part each of its inference        *)
(* requests carried (refs), and of how many of its requests have been      *)
(* answered (returned).                                                    *)

IdleRun ==
  [pc |-> "idle", file |-> NoFile, uploadUrl |-> "", fileName |-> "",
   fileUri |-> "", fileState |-> "", contentPart |-> "none", attempt |-> 0,
   responseText |-> <<>>, err |-> NoErr,
   calls |-> 0, delays |-> <<>>, sleeps |-> <<>>, polls |-> <<>>, net |-> <<>>,
   stages |-> <<>>, started |-> "none", putUrl |-> "", rerun |-> FALSE,
   refs |-> <<>>, returned |-> 0]

Active(r) == runs[r].pc \notin {"idle", "done"}

ActiveRuns == {r \in RunIds : Active(r)}

\* the locals of an invocation that has returned are released at the next event
Live == [r \in RunIds |-> IF runs[r].pc = "done" THEN IdleRun ELSE runs[r]]

\* the slot a new invocation takes
FreeSlot(ids) == CHOOSE r \in ids :
                   /\ ~Active(r)
                   /\ (r = "r1" \/ Active("r1"))

\* the progress effect (lines 315-332) after a commit that changed
\* isAnalyzing or retryCount: restart from 0 while analyzing, else 100
ProgressEffect(wasAnalyzing, oldRetry, nowAnalyzing, newRetry, prog) ==
  IF wasAnalyzing # nowAnalyzing \/ oldRetry # newRetry
    THEN (IF nowAnalyzing THEN 0 ELSE 1000)
    ELSE prog

\* a timer that shows 95 during retries
TickValue_Retry95(prev, rc) ==
  IF rc > 0 THEN 950
  ELSE IF prev >= 900 THEN 900
  ELSE Min(prev + (IF prev < 300 THEN 25 ELSE IF prev < 600 THEN 15 ELSE 5),
           900)

\* one firing of the 400 ms interval (lines 321-326)
TickValue(prev, rc) ==
  IF rc > 0 THEN 900
  ELSE IF prev >= 900 THEN 900
  ELSE Min(prev + (IF prev < 300 THEN 25 ELSE IF prev < 600 THEN 15 ELSE 5),
           900)

Init ==
  /\ apiKey \in {"", "key"}
  /\ file = NoFile
  /\ isAnalyzing = FALSE
  /\ analysisData = JsNull
  /\ error = Null
  /\ errorDetails = Null
  /\ rawResponse = <<>>
  /\ activeTab = "events"
  /\ progress = 1000
  /\ loadingStage = "Initializing..."
  /\ retryCount = 0
  /\ runs = [r \in RunIds |-> IdleRun]

----------------------------------------------------------------------------
(* User events *)

\* the file stored before its size is tested
handleFileChange_StoreFirst(size) ==
  IF size > MAX_FILE_SIZE_MB * 1024 * 1024
    THEN /\ file' = size
         /\ error' = <<"File too large (" \o ToFixed1MB(size) \o "MB).">>
         /\ errorDetails' =
              <<"The limit is " \o ToString(MAX_FILE_SIZE_MB) \o "MB.">>
         /\ UNCHANGED <<apiKey, isAnalyzing, analysisData, rawResponse,
                        activeTab, progress, loadingStage, retryCount>>
         /\ runs' = Live
    ELSE /\ file' = size
         /\ analysisData' = JsNull
         /\ rawResponse' = <<>>
         /\ error' = Null
         /\ errorDetails' = Null
         /\ UNCHANGED <<apiKey, isAnalyzing, activeTab, progress,
                        loadingStage, retryCount>>
         /\ runs' = Live

\* handleFileChange (lines 334-349)
handleFileChange(size) ==
  IF size > MAX_FILE_SIZE_MB * 1024 * 1024
    THEN /\ error' = <<"File too large (" \o ToFixed1MB(size) \o "MB).">>
         /\ errorDetails' =
              <<"The limit is " \o ToString(MAX_FILE_SIZE_MB) \o "MB.">>
         /\ UNCHANGED <<apiKey, file, isAnalyzing, analysisData, rawResponse,
                        activeTab, progress, loadingStage, retryCount>>
         /\ runs' = Live
    ELSE /\ file' = size
         /\ analysisData' = JsNull
         /\ rawResponse' = <<>>
         /\ error' = Null
         /\ errorDetails' = Null
         /\ UNCHANGED <<apiKey, isAnalyzing, activeTab, progress,
                        loadingStage, retryCount>>
         /\ runs' = Live

\* a remote run that, started on a failure, sends its bytes to the session
\* of the run before
RemoteStart_Resume(f, again) ==
  IF again
    THEN [IdleRun EXCEPT !.pc = "uploadBytes",
                         !.file = f,
                         !.started = "ok",
                         !.uploadUrl = "https://upload/session/1",
                         !.putUrl = "https://upload/session/1",
                         !.net = <<"bytes">>,
                         !.rerun = again,
                         !.stages = <<"Preparing video...",
                                      "Uploading to Secure Storage...">>]
    ELSE [IdleRun EXCEPT !.pc = "uploadStart",
                         !.file = f,
                         !.net = <<"start">>,
                         !.rerun = again,
                         !.stages = <<"Preparing video...",
                                      "Uploading to Secure Storage...">>]

\* the locals of a remote run when it has sent its session-start request
\* (lines 400-405, 24-41); again: it was started on the failure of a run
RemoteStart(f, again) ==
  [IdleRun EXCEPT !.pc = "uploadStart",
                  !.file = f,
                  !.net = <<"start">>,
                  !.rerun = again,
                  !.stages = <<"Preparing video...",
                               "Uploading to Secure Storage...">>]

\* the analyzing flag set before the API key is tested
runAnalysis_FlagFirst(ids) ==
  IF file = NoFile THEN UNCHANGED vars
  ELSE IF apiKey = ""
    THEN /\ error' = <<"API Key Missing">>
         /\ errorDetails' = <<"process.env.API_KEY is not set.">>
         /\ isAnalyzing' = TRUE
         /\ progress' = ProgressEffect(isAnalyzing, retryCount, TRUE,
                                       retryCount, progress)
         /\ UNCHANGED <<apiKey, file, analysisData, rawResponse,
                        activeTab, loadingStage, retryCount>>
         /\ runs' = Live
    ELSE /\ \E r \in ids : ~Active(r)
         /\ isAnalyzing' = TRUE
         /\ error' = Null
         /\ errorDetails' = Null
         /\ rawResponse' = <<>>
         /\ analysisData' = JsNull
         /\ retryCount' = 0
         /\ progress' = ProgressEffect(isAnalyzing, retryCount, TRUE, 0, progress)
         /\ IF isLargeFile(file)
              THEN /\ loadingStage' = "Uploading to Secure Storage..."
                   /\ runs' = [Live EXCEPT ![FreeSlot(ids)] =
                                 RemoteStart(file,
                                             error = <<"Analysis Failed">>)]
              ELSE /\ loadingStage' = "Encoding video (Inline)..."
                   /\ runs' = [Live EXCEPT ![FreeSlot(ids)] =
                                 [IdleRun EXCEPT !.pc = "encoding",
                                                 !.file = file,
                                                 !.rerun =
                                                    (error = <<"Analysis Failed">>),
                                                 !.stages =
                                                    <<"Preparing video...",
                                                      loadingStage'>>]]
         /\ UNCHANGED <<apiKey, file, activeTab>>

\* runAnalysis up to its first await (lines 377-405, 418-420)
runAnalysis(ids) ==
  IF file = NoFile THEN UNCHANGED vars
  ELSE IF apiKey = ""
    THEN /\ error' = <<"API Key Missing">>
         /\ errorDetails' = <<"process.env.API_KEY is not set.">>
         /\ UNCHANGED <<apiKey, file, isAnalyzing, analysisData, rawResponse,
                        activeTab, progress, loadingStage, retryCount>>
         /\ runs' = Live
    ELSE /\ \E r \in ids : ~Active(r)
         /\ isAnalyzing' = TRUE
         /\ error' = Null
         /\ errorDetails' = Null
         /\ rawResponse' = <<>>
         /\ analysisData' = JsNull
         /\ retryCount' = 0
         /\ progress' = ProgressEffect(isAnalyzing, retryCount, TRUE, 0, progress)
         /\ IF isLargeFile(file)
              THEN /\ loadingStage' = "Uploading to Secure Storage..."
                   /\ runs' = [Live EXCEPT ![FreeSlot(ids)] =
                                 RemoteStart(file,
                                             error = <<"Analysis Failed">>)]
              ELSE /\ loadingStage' = "Encoding video (Inline)..."
                   /\ runs' = [Live EXCEPT ![FreeSlot(ids)] =
                                 [IdleRun EXCEPT !.pc = "encoding",
                                                 !.file = file,
                                                 !.rerun =
                                                    (error = <<"Analysis Failed">>),
                                                 !.stages =
                                                    <<"Preparing video...",
                                                      loadingStage'>>]]
         /\ UNCHANGED <<apiKey, file, activeTab>>

\* the RUN EXPERT ANALYSIS button, disabled={!file || isAnalyzing} (623-625)
ClickRun(ids) ==
  /\ file # NoFile
  /\ ~isAnalyzing
  /\ runAnalysis(ids)

\* the Try Again button of the error panel, shown while error is set (654-668)
ClickTryAgain(ids) ==
  /\ error # Null
  /\ runAnalysis(ids)

\* the interval never cleared: it fires whether or not a run is analyzing
Tick_NotCleared ==
  /\ progress' = TickValue(progress, retryCount)
  /\ UNCHANGED <<apiKey, file, isAnalyzing, analysisData, error, errorDetails,
                 rawResponse, activeTab, loadingStage, retryCount>>
  /\ runs' = Live

\* the interval of the progress effect fires (lines 320-327)
Tick ==
  /\ isAnalyzing
  /\ progress' = TickValue(progress, retryCount)
  /\ UNCHANGED <<apiKey, file, isAnalyzing, analysisData, error, errorDetails,
                 rawResponse, activeTab, loadingStage, retryCount>>
  /\ runs' = Live

\* the first firings of the interval
TickEarly ==
  /\ progress < MaxTickedProgress
  /\ Tick

----------------------------------------------------------------------------
(* Continuations of runAnalysis *)

\* an awaited request of the run has resolved or rejected
Returned(rec) == [rec EXCEPT !.returned = @ + 1]

\* the error leaving runAnalysis uncaught: only the finally block runs
Fail_Uncaught(r, rec, e) ==
  /\ UNCHANGED <<error, errorDetails>>
  /\ isAnalyzing' = FALSE
  /\ progress' = ProgressEffect(isAnalyzing, retryCount, FALSE, retryCount,
                                progress)
  /\ runs' = [Live EXCEPT ![r] = [rec EXCEPT !.pc = "done", !.err = e]]

\* the catch block without the finally block: the flag is not released
Fail_NoFinally(r, rec, e) ==
  /\ error' = <<"Analysis Failed">>
  /\ errorDetails' = Details(e)
  /\ UNCHANGED <<isAnalyzing, progress>>
  /\ runs' = [Live EXCEPT ![r] = [rec EXCEPT !.pc = "done", !.err = e]]

\* catch (530-533) and finally (534-536): run r ends with the error e;
\* rec is its record at the throw
Fail(r, rec, e) ==
  /\ error' = <<"Analysis Failed">>
  /\ errorDetails' = Details(e)
  /\ isAnalyzing' = FALSE
  /\ progress' = ProgressEffect(isAnalyzing, retryCount, FALSE, retryCount,
                                progress)
  /\ runs' = [Live EXCEPT ![r] = [rec EXCEPT !.pc = "done", !.err = e]]

\* every request refers to an uploaded asset, an inline run included
PartOf_AlwaysUri(rec) == rec.fileUri

\* the video part of a request: the URI of the uploaded asset, or the inline
\* base64 data (lines 416, 421, 493)
PartOf(rec) ==
  IF rec.contentPart = "fileData" THEN rec.fileUri ELSE rec.contentPart

\* a retry that sends the prompt without the video part
IssueInference_NoPart(rec) ==
  [rec EXCEPT !.pc = "generateContent",
              !.calls = @ + 1,
              !.net = Append(@, "infer"),
              !.refs = Append(@, IF rec.calls = 0 THEN PartOf(rec) ELSE "none")]

\* the inference call is issued (lines 488-502)
IssueInference(rec) ==
  [rec EXCEPT !.pc = "generateContent",
              !.calls = @ + 1,
              !.net = Append(@, "infer"),
              !.refs = Append(@, PartOf(rec))]

\* sleep(2000) called without await: no interval passes
PollSleep_NotAwaited(rec) == [rec EXCEPT !.pc = "pollSleep"]

\* await sleep(2000) of the poll loop (line 410)
PollSleep(rec) ==
  [rec EXCEPT !.pc = "pollSleep", !.sleeps = Append(@, POLL_INTERVAL_MS)]

\* the poll loop without the check after it (line 415)
PollStep_NoActiveCheck(state) ==
  IF state = "FAILED" THEN "throwFailed"
  ELSE IF state = "PROCESSING" THEN "sleep"
  ELSE "proceed"

\* what the poll loop does with the state it has read (lines 409-415)
PollStep(state) ==
  IF state = "FAILED" THEN "throwFailed"
  ELSE IF state = "PROCESSING" THEN "sleep"
  ELSE IF state # "ACTIVE" THEN "throwState"
  ELSE "proceed"

\* the session start without the test of the header (line 48)
UploadStartReturns_NoUrlTest(r, out) ==
  /\ runs[r].pc = "uploadStart"
  /\ IF out.kind \in {"ok", "noUrl"}
       THEN /\ runs' = [Live EXCEPT ![r] =
                          [@ EXCEPT !.pc = "uploadBytes",
                                    !.started = out.kind,
                                    !.uploadUrl =
                                       IF out.kind = "ok" THEN out.url ELSE "null",
                                    !.putUrl =
                                       IF out.kind = "ok" THEN out.url ELSE "null",
                                    !.net = Append(@, "bytes")]]
            /\ UNCHANGED <<error, errorDetails, isAnalyzing, progress>>
       ELSE Fail(r, [runs[r] EXCEPT !.started = out.kind],
                 IF out.kind = "notOk"
                   THEN MkError("Upload init failed (" \o ToString(out.status)
                                   \o "): " \o out.body)
                 ELSE out.err)
  /\ UNCHANGED <<apiKey, file, analysisData, rawResponse, activeTab,
                 loadingStage, retryCount>>

\* the session-start POST returns (lines 27-59)
UploadStartReturns(r, out) ==
  /\ runs[r].pc = "uploadStart"
  /\ IF out.kind = "ok"
       THEN /\ runs' = [Live EXCEPT ![r] =
                          [Returned(@) EXCEPT !.pc = "uploadBytes",
                                    !.started = out.kind,
                                    !.uploadUrl = out.url,
                                    !.putUrl = out.url,
                                    !.net = Append(@, "bytes")]]
            /\ UNCHANGED <<error, errorDetails, isAnalyzing, progress>>
       ELSE Fail(r, [Returned(runs[r]) EXCEPT !.started = out.kind],
                 IF out.kind = "notOk"
                   THEN MkError("Upload init failed (" \o ToString(out.status)
                                   \o "): " \o out.body)
                 ELSE IF out.kind = "noUrl"
                   THEN MkError("No upload URL returned from Google.")
                 ELSE out.err)
  /\ UNCHANGED <<apiKey, file, analysisData, rawResponse, activeTab,
                 loadingStage, retryCount>>

\* a byte transfer that is sent again when it is answered with an error
UploadBytesReturns_Resend(r, out) ==
  /\ runs[r].pc = "uploadBytes"
  /\ IF out.kind = "ok"
       THEN /\ loadingStage' = "Processing video content..."
            /\ runs' = [Live EXCEPT ![r] =
                          PollSleep([@ EXCEPT !.fileName = out.name,
                                              !.fileUri = out.uri,
                                              !.fileState = "PROCESSING",
                                              !.stages =
                                                 Append(@, loadingStage')])]
            /\ UNCHANGED <<error, errorDetails, isAnalyzing, progress>>
     ELSE IF out.kind = "notOk" /\ Len(runs[r].net) < 3
       THEN /\ runs' = [Live EXCEPT ![r] = [@ EXCEPT !.net = Append(@, "bytes")]]
            /\ UNCHANGED <<error, errorDetails, isAnalyzing, progress,
                           loadingStage>>
       ELSE /\ Fail(r, runs[r], IF out.kind = "throw" THEN out.err
                                ELSE MkError("Upload bytes failed"))
            /\ UNCHANGED loadingStage
  /\ UNCHANGED <<apiKey, file, analysisData, rawResponse, activeTab,
                 retryCount>>

\* the byte transfer taken as done whatever the response: no test of
\* uploadBytes.ok
UploadBytesReturns_NoOkTest(r, out) ==
  /\ runs[r].pc = "uploadBytes"
  /\ IF out.kind # "throw"
       THEN /\ loadingStage' = "Processing video content..."
            /\ runs' = [Live EXCEPT ![r] =
                          PollSleep([Returned(@) EXCEPT
                                       !.fileName = IF out.kind = "ok"
                                                      THEN out.name ELSE "",
                                       !.fileUri = IF out.kind = "ok"
                                                     THEN out.uri ELSE "",
                                       !.fileState = "PROCESSING",
                                       !.stages = Append(@, loadingStage')])]
            /\ UNCHANGED <<error, errorDetails, isAnalyzing, progress>>
       ELSE /\ Fail(r, Returned(runs[r]), out.err)
            /\ UNCHANGED loadingStage
  /\ UNCHANGED <<apiKey, file, analysisData, rawResponse, activeTab,
                 retryCount>>

\* the byte-transfer PUT returns (lines 61-67, 405-410)
UploadBytesReturns(r, out) ==
  /\ runs[r].pc = "uploadBytes"
  /\ IF out.kind = "ok"
       THEN /\ loadingStage' = "Processing video content..."
            /\ runs' = [Live EXCEPT ![r] =
                          PollSleep([Returned(@) EXCEPT !.fileName = out.name,
                                              !.fileUri = out.uri,
                                              !.fileState = "PROCESSING",
                                              !.stages =
                                                 Append(@, loadingStage')])]
            /\ UNCHANGED <<error, errorDetails, isAnalyzing, progress>>
       ELSE /\ Fail(r, Returned(runs[r]),
                    IF out.kind = "notOk"
                      THEN MkError("Upload bytes failed ("
                                      \o ToString(out.status) \o "): "
                                      \o out.body)
                      ELSE out.err)
            /\ UNCHANGED loadingStage
  /\ UNCHANGED <<apiKey, file, analysisData, rawResponse, activeTab,
                 retryCount>>

\* a poll loop that sends the next status GET with the one before it
PollSleepDone_Overlap(r) ==
  /\ runs[r].pc = "pollSleep"
  /\ runs' = [Live EXCEPT ![r] =
                [@ EXCEPT !.pc = "getFileState",
                          !.net = Append(Append(@, "status"), "status")]]
  /\ UNCHANGED <<apiKey, file, isAnalyzing, analysisData, error, errorDetails,
                 rawResponse, activeTab, progress, loadingStage, retryCount>>

\* sleep(2000) of the poll loop elapses and the status GET is sent (410-411)
PollSleepDone(r) ==
  /\ runs[r].pc = "pollSleep"
  /\ runs' = [Live EXCEPT ![r] =
                [@ EXCEPT !.pc = "getFileState", !.net = Append(@, "status")]]
  /\ UNCHANGED <<apiKey, file, isAnalyzing, analysisData, error, errorDetails,
                 rawResponse, activeTab, progress, loadingStage, retryCount>>

\* the status GET returns (lines 411-424, 476-488)
StatusReturns(r, out) ==
  LET res == getFileState(out)
      rec == IF res.threw THEN Returned(runs[r])
             ELSE [Returned(runs[r]) EXCEPT !.fileState = res.state,
                                  !.polls = Append(@, res.state)]
      nProcessing ==
        Cardinality({i \in 1..Len(runs[r].polls) :
                       runs[r].polls[i] = "PROCESSING"})
  IN
  /\ runs[r].pc = "getFileState"
  /\ (out.kind = "ok" /\ out.state = "PROCESSING") => nProcessing < MaxProcessing
  /\ IF res.threw
       THEN Fail(r, rec, res.err) /\ UNCHANGED loadingStage
     ELSE IF PollStep(res.state) = "throwFailed"
       THEN /\ Fail(r, rec, MkError("Video processing failed on server."))
            /\ UNCHANGED loadingStage
     ELSE IF PollStep(res.state) = "sleep"
       THEN /\ runs' = [Live EXCEPT ![r] = PollSleep(rec)]
            /\ UNCHANGED <<error, errorDetails, isAnalyzing, progress,
                           loadingStage>>
     ELSE IF PollStep(res.state) = "throwState"
       THEN /\ Fail(r, rec, MkError("File state is " \o res.state))
            /\ UNCHANGED loadingStage
     ELSE /\ loadingStage' = "Analyzing movements & structure..."
          /\ runs' = [Live EXCEPT ![r] =
                        IssueInference([rec EXCEPT !.contentPart = "fileData",
                                                   !.stages =
                                                      Append(@, loadingStage')])]
          /\ UNCHANGED <<error, errorDetails, isAnalyzing, progress>>
  /\ UNCHANGED <<apiKey, file, analysisData, rawResponse, activeTab,
                 retryCount>>

\* fileToBase64 settles (lines 351-361, 419-424, 476-488)
EncodingDone(r, ok) ==
  /\ runs[r].pc = "encoding"
  /\ IF ok
       THEN /\ loadingStage' = "Analyzing movements & structure..."
            /\ runs' = [Live EXCEPT ![r] =
                          IssueInference([@ EXCEPT !.contentPart = "inlineData",
                                                   !.stages =
                                                      Append(@, loadingStage')])]
            /\ UNCHANGED <<error, errorDetails, isAnalyzing, progress>>
       ELSE Fail(r, runs[r], EReader) /\ UNCHANGED loadingStage
  /\ UNCHANGED <<apiKey, file, analysisData, rawResponse, activeTab,
                 retryCount>>

\* the response handed to the extractor without the test of line 522
InferResolves_NoEmptyTest(r, text) ==
  LET rec == [Returned(runs[r]) EXCEPT !.responseText = text]
      parsed == tryParseJSON(text)
  IN
  /\ runs[r].pc = "generateContent"
  /\ rawResponse' = text
  /\ IF ~parsed.ok
       THEN /\ Fail(r, rec, MkError("Could not parse JSON from response."))
            /\ UNCHANGED <<analysisData, activeTab>>
     ELSE IF parsed.value = JsNull
       THEN /\ analysisData' = JsNull
            /\ Fail(r, rec, ENullRead)
            /\ UNCHANGED activeTab
     ELSE /\ analysisData' = parsed.value
          /\ activeTab' =
               IF parsed.value.kind # "object" THEN activeTab
               ELSE IF \E i \in 1..Len(parsed.value.members) :
                          parsed.value.members[i] = "P" THEN "players"
               ELSE IF \E i \in 1..Len(parsed.value.members) :
                          parsed.value.members[i] = "T" THEN "tactics"
               ELSE activeTab
          /\ isAnalyzing' = FALSE
          /\ progress' = ProgressEffect(isAnalyzing, retryCount, FALSE,
                                        retryCount, progress)
          /\ runs' = [Live EXCEPT ![r] = [rec EXCEPT !.pc = "done"]]
          /\ UNCHANGED <<error, errorDetails>>
  /\ UNCHANGED <<apiKey, file, loadingStage, retryCount>>

\* the inference call resolves with a text (lines 503-504, 521-536)
InferResolves(r, text) ==
  LET rec == [Returned(runs[r]) EXCEPT !.responseText = text]
      parsed == tryParseJSON(text)
  IN
  /\ runs[r].pc = "generateContent"
  /\ rawResponse' = text
  /\ IF text = <<>>
       THEN /\ Fail(r, rec, MkError("Empty response from AI."))
            /\ UNCHANGED <<analysisData, activeTab>>
     ELSE IF ~parsed.ok
       THEN /\ Fail(r, rec, MkError("Could not parse JSON from response."))
            /\ UNCHANGED <<analysisData, activeTab>>
     ELSE IF parsed.value = JsNull
       THEN /\ analysisData' = JsNull
            /\ Fail(r, rec, ENullRead)
            /\ UNCHANGED activeTab
     ELSE /\ analysisData' = parsed.value
          /\ activeTab' =
               IF parsed.value.kind # "object" THEN activeTab
               ELSE IF \E i \in 1..Len(parsed.value.members) :
                          parsed.value.members[i] = "P" THEN "players"
               ELSE IF \E i \in 1..Len(parsed.value.members) :
                          parsed.value.members[i] = "T" THEN "tactics"
               ELSE activeTab
          /\ isAnalyzing' = FALSE
          /\ progress' = ProgressEffect(isAnalyzing, retryCount, FALSE,
                                        retryCount, progress)
          /\ runs' = [Live EXCEPT ![r] = [rec EXCEPT !.pc = "done"]]
          /\ UNCHANGED <<error, errorDetails>>
  /\ UNCHANGED <<apiKey, file, loadingStage, retryCount>>

\* the catch block sleeping before it tests the ceiling
InferRejects_SleepBeforeThrow(r, err) ==
  /\ runs[r].pc = "generateContent"
  /\ IF isRetryable(err) /\ runs[r].attempt < MAX_RETRIES - 1
       THEN /\ runs' = [Live EXCEPT ![r] =
                          [@ EXCEPT !.pc = "backoff",
                                    !.err = err,
                                    !.attempt = @ + 1,
                                    !.delays =
                                       Append(@, BackoffDelay(runs[r].attempt + 1))]]
            /\ UNCHANGED <<error, errorDetails, isAnalyzing, progress>>
       ELSE Fail(r, [runs[r] EXCEPT !.delays =
                                       Append(@, BackoffDelay(runs[r].attempt + 1))],
                 err)
  /\ UNCHANGED <<apiKey, file, analysisData, rawResponse, activeTab,
                 loadingStage, retryCount>>

\* the inference call rejects with err (lines 505-518, 530-536)
InferRejects(r, err) ==
  /\ runs[r].pc = "generateContent"
  /\ IF isRetryable(err) /\ runs[r].attempt < MAX_RETRIES - 1
       THEN /\ runs' = [Live EXCEPT ![r] =
                          [Returned(@) EXCEPT !.pc = "backoff",
                                    !.err = err,
                                    !.attempt = @ + 1,
                                    !.delays =
                                       Append(@, BackoffDelay(runs[r].attempt + 1))]]
            /\ UNCHANGED <<error, errorDetails, isAnalyzing, progress>>
       ELSE Fail(r, Returned(runs[r]), err)
  /\ UNCHANGED <<apiKey, file, analysisData, rawResponse, activeTab,
                 loadingStage, retryCount>>

\* the retry without setRetryCount (line 485)
BackoffDone_NoCount(r) ==
  /\ runs[r].pc = "backoff"
  /\ runs[r].attempt < MAX_RETRIES
  /\ loadingStage' = RetryStage(runs[r].attempt)
  /\ runs' = [Live EXCEPT ![r] =
                IssueInference([@ EXCEPT !.err = NoErr,
                                         !.stages = Append(@, loadingStage')])]
  /\ UNCHANGED <<apiKey, file, isAnalyzing, analysisData, error, errorDetails,
                 rawResponse, activeTab, retryCount, progress>>

\* sleep(delay) elapses: the loop comes round and calls again (481-488, 514)
BackoffDone(r) ==
  /\ runs[r].pc = "backoff"
  /\ runs[r].attempt < MAX_RETRIES
  /\ loadingStage' = RetryStage(runs[r].attempt)
  /\ retryCount' = runs[r].attempt
  /\ progress' = ProgressEffect(isAnalyzing, retryCount, isAnalyzing,
                                runs[r].attempt, progress)
  /\ runs' = [Live EXCEPT ![r] =
                IssueInference([@ EXCEPT !.err = NoErr,
                                         !.stages = Append(@, loadingStage')])]
  /\ UNCHANGED <<apiKey, file, isAnalyzing, analysisData, error, errorDetails,
                 rawResponse, activeTab>>

----------------------------------------------------------------------------

\* what the user can do: pick a file of one of the sizes, press a button;
\* ids are the invocations that may be in flight together
UserEvents(sizes, ids) ==
  \/ \E size \in sizes : handleFileChange(size)
  \/ ClickRun(ids)
  \/ ClickTryAgain(ids)

\* what the awaited operations can do: elapse, resolve, reject
Continuations(texts, errs) ==
  \/ \E r \in RunIds, out \in UploadStartOutcomes : UploadStartReturns(r, out)
  \/ \E r \in RunIds, out \in UploadBytesOutcomes : UploadBytesReturns(r, out)
  \/ \E r \in RunIds : PollSleepDone(r)
  \/ \E r \in RunIds, out \in StatusOutcomes : StatusReturns(r, out)
  \/ \E r \in RunIds, ok \in BOOLEAN : EncodingDone(r, ok)
  \/ \E r \in RunIds, text \in texts : InferResolves(r, text)
  \/ \E r \in RunIds, err \in errs : InferRejects(r, err)
  \/ \E r \in RunIds : BackoffDone(r)

(* Spec: every input of the model, one invocation in flight at a time, the *)
(* progress timer left out (progress is then 0 while analyzing).           *)
Next ==
  \/ UserEvents(FileSizes, SoloIds)
  \/ Continuations(ResponseTexts, InferErrors)

Spec == Init /\ [][Next]_vars

(* SpecTimed: Spec with the 400 ms progress timer. *)
NextTimed ==
  \/ UserEvents(FileSizes, SoloIds)
  \/ Continuations(ResponseTexts, InferErrors)
  \/ Tick

SpecTimed == Init /\ [][NextTimed]_vars

(* SpecRace: two invocations may be in flight together; fewer inputs. *)
NextRace ==
  \/ UserEvents(RaceSizes, RunIds)
  \/ Continuations(RaceTexts, RaceErrors)

SpecRace == Init /\ [][NextRace]_vars

(* SpecTimedRace: SpecRace with the first firings of the progress timer. *)
NextTimedRace ==
  \/ UserEvents(RaceSizes, RunIds)
  \/ Continuations(RaceTexts, RaceErrors)
  \/ TickEarly

SpecTimedRace == Init /\ [][NextTimedRace]_vars

(* SpecRaceInline: two invocations in flight together, files below the    *)
(* inline limit only, and two different results.                          *)
InlineSizes == { 5 * MiB, 2000 * MiB + 1 }

InlineTexts ==
  { <<"{", "P", ",", "T", "}">>,
    <<"fence", "json", " ", "{", "T", "}", " ", "fence">>,
    <<"null">> }

NextRaceInline ==
  \/ UserEvents(InlineSizes, RunIds)
  \/ \E r \in RunIds, ok \in BOOLEAN : EncodingDone(r, ok)
  \/ \E r \in RunIds, text \in InlineTexts : InferResolves(r, text)
  \/ \E r \in RunIds, err \in RaceErrors : InferRejects(r, err)
  \/ \E r \in RunIds : BackoffDone(r)

SpecRaceInline == Init /\ [][NextRaceInline]_vars

(* SpecLive: Spec, and every awaited operation settles: a fetch, a sleep,  *)
(* a FileReader or an inference call that is pending resolves or rejects,  *)
(* and the continuation of the run is then run by the event loop.  The     *)
(* server answers PROCESSING at most MaxProcessing times.                  *)
SpecLive ==
  Init /\ [][Next]_vars /\ WF_vars(Continuations(ResponseTexts, InferErrors))

----------------------------------------------------------------------------
(* Properties *)

\* the retryable failures as section 4.4 lists them: a 429 or 503 carried in
\* status or code, or a message with "overloaded" or "fetch" in it
RetryableFailure(e) ==
  \/ e.status \in {429, 503}
  \/ e.code \in {429, 503}
  \/ Includes(e.message, <<"o", "v", "e", "r", "l", "o", "a", "d", "e", "d">>)
  \/ Includes(e.message, <<"f", "e", "t", "c", "h">>)

NumProcessing(polls) ==
  Cardinality({i \in 1..Len(polls) : polls[i] = "PROCESSING"})

\* the poll loop of r has ended on a status it read
PollEnded(r) ==
  /\ Len(runs[r].polls) > 0
  /\ runs[r].polls[Len(runs[r].polls)] # "PROCESSING"

\* C1: in any run at most 3 inference calls are issued and at most 2 backoff
\* delays are awaited, whatever the endpoint answers.
C1_AttemptCeiling ==
  \A r \in RunIds : runs[r].calls <= 3 /\ Len(runs[r].delays) <= 2

C1_Witness ==
  \E r \in RunIds :
     runs[r].pc = "done" /\ runs[r].calls = 3 /\ Len(runs[r].delays) = 2

\* C2: a rejected inference attempt is followed by a delay and another
\* attempt iff the failure is retryable (429/503, or an overloaded/fetch
\* message) and fewer than 3 calls were made; otherwise the run ends at once
\* with that error, with no further delay and no further call.
C2_RetryClassification ==
  [][\A r \in RunIds :
       /\ (runs[r].pc = "generateContent" /\ runs'[r].err \in InferErrors) =>
            IF RetryableFailure(runs'[r].err) /\ runs[r].calls < 3
              THEN /\ runs'[r].pc = "backoff"
                   /\ runs'[r].calls = runs[r].calls
                   /\ Len(runs'[r].delays) = Len(runs[r].delays) + 1
              ELSE /\ runs'[r].pc = "done"
                   /\ runs'[r].calls = runs[r].calls
                   /\ runs'[r].delays = runs[r].delays
                   /\ error' = <<"Analysis Failed">>
                   /\ errorDetails' = Details(runs'[r].err)
                   /\ ~isAnalyzing'
       /\ (runs[r].pc = "backoff" /\ runs'[r].pc # "backoff") =>
            /\ runs'[r].pc = "generateContent"
            /\ runs'[r].calls = runs[r].calls + 1
    ]_vars

\* a 400 after a 503: one delay, two calls, the run ended with the 400
C2_Witness ==
  \E r \in RunIds :
     /\ runs[r].pc = "done"
     /\ runs[r].err = E400
     /\ runs[r].calls = 2
     /\ runs[r].delays = <<4000>>
     /\ errorDetails = <<"b", "a", "d">>

\* C3: the k-th delay is 2^k * 2000 ms (4 s, then 8 s); a retried call is
\* issued only when its delay has elapsed; a run whose third call succeeds
\* has awaited exactly <<4000, 8000>> and carries the third call's text.
C3_BackoffSchedule ==
  \A r \in RunIds :
     /\ \A k \in 1..Len(runs[r].delays) : runs[r].delays[k] = (2 ^ k) * 2000
     /\ runs[r].pc = "backoff" => runs[r].calls = Len(runs[r].delays)
     /\ runs[r].pc = "generateContent" =>
          runs[r].calls = Len(runs[r].delays) + 1
     /\ (runs[r].pc = "done" /\ runs[r].calls = 3 /\ runs[r].err = NoErr) =>
          /\ runs[r].delays = <<4000, 8000>>
          /\ rawResponse = runs[r].responseText
          /\ rawResponse # <<>>

C3_Witness ==
  \E r \in RunIds :
     /\ runs[r].pc = "done"
     /\ runs[r].calls = 3
     /\ runs[r].err = NoErr
     /\ runs[r].delays = <<4000, 8000>>
     /\ rawResponse = <<"{", "P", ",", "T", "}">>

\* the run r has ended on a retryable failure of its third call
Exhausted(r) ==
  /\ runs[r].pc = "done"
  /\ runs[r].calls = 3
  /\ runs[r].err \in InferErrors
  /\ RetryableFailure(runs[r].err)

C5_UnknownNotFatal ==
  \A r \in RunIds :
     ~(runs[r].pc = "done" /\ runs[r].fileState = "UNKNOWN"
         /\ runs[r].err # NoErr)

\* C6 as stated: n PROCESSING answers followed by a terminal status cost
\* exactly n sleeps of the poll loop.
C6_SleepsEqualProcessing ==
  \A r \in RunIds :
     PollEnded(r) => Len(runs[r].sleeps) = NumProcessing(runs[r].polls)

\* C6: n PROCESSING answers followed by another status cost exactly n + 1
\* sleeps of 2000 ms, one before every status check, the first included.
C6_SleepBeforeEveryCheck ==
  \A r \in RunIds :
     /\ \A i \in 1..Len(runs[r].sleeps) : runs[r].sleeps[i] = 2000
     /\ PollEnded(r) =>
          /\ NumProcessing(runs[r].polls) = Len(runs[r].polls) - 1
          /\ Len(runs[r].sleeps) = NumProcessing(runs[r].polls) + 1

\* [PROCESSING, PROCESSING, ACTIVE]: three sleeps
C6_Witness ==
  \E r \in RunIds :
     /\ runs[r].polls = <<"PROCESSING", "PROCESSING", "ACTIVE">>
     /\ Len(runs[r].sleeps) = 3

\* C7: inference is reached only after a status check returned ACTIVE; FAILED
\* ends the run with the processing error; any other status that ends the
\* loop ends the run with an error naming that status; neither issues a call.
C7_PollOutcomes ==
  \A r \in RunIds :
     /\ (runs[r].file > 20971520 /\ runs[r].calls > 0) =>
          PollEnded(r) /\ runs[r].polls[Len(runs[r].polls)] = "ACTIVE"
     /\ (PollEnded(r) /\ runs[r].polls[Len(runs[r].polls)] # "ACTIVE") =>
          /\ runs[r].pc = "done"
          /\ runs[r].calls = 0
          /\ error = <<"Analysis Failed">>
          /\ errorDetails =
               IF runs[r].polls[Len(runs[r].polls)] = "FAILED"
                 THEN <<"Video processing failed on server.">>
                 ELSE <<"File state is " \o runs[r].polls[Len(runs[r].polls)]>>

C7_Witness ==
  \E r \in RunIds :
     /\ runs[r].pc = "done"
     /\ runs[r].polls = <<"PROCESSING", "STATE_UNSPECIFIED">>
     /\ errorDetails = <<"File state is STATE_UNSPECIFIED">>

\* C8 as stated: at most one run is active at a time.
C8_SingleFlight == Cardinality(ActiveRuns) <= 1

\* C9: a file of at most 20 MiB is encoded inline and never uploaded; a larger
\* file (up to 2000 MiB) is uploaded and polled and never encoded inline.
C9_StrategySelection ==
  \A r \in RunIds :
     runs[r].pc # "idle" =>
       IF runs[r].file <= 20971520
         THEN /\ runs[r].pc \in {"encoding", "generateContent", "backoff", "done"}
              /\ runs[r].contentPart \in {"none", "inlineData"}
              /\ \A i \in 1..Len(runs[r].net) : runs[r].net[i] = "infer"
              /\ runs[r].calls > 0 => runs[r].contentPart = "inlineData"
         ELSE /\ runs[r].file <= 2097152000
              /\ runs[r].pc # "encoding"
              /\ runs[r].contentPart \in {"none", "fileData"}
              /\ runs[r].net[1] = "start"
              /\ runs[r].calls > 0 =>
                   /\ runs[r].contentPart = "fileData"
                   /\ SubSeq(runs[r].net, 1, 3) = <<"start", "bytes", "status">>

\* the boundary: exactly 20 MiB goes inline
C9_Witness ==
  \E r \in RunIds :
     /\ runs[r].file = 20971520
     /\ runs[r].pc = "generateContent"
     /\ runs[r].contentPart = "inlineData"

\* C10: a file of more than 2000 MiB is rejected at selection with the size
\* error, never becomes the selected file, and no run ever works on it.
C10_SizeCeiling ==
  [][/\ file' <= 2097152000
     /\ \A r \in RunIds : runs'[r].file <= 2097152000
     /\ (error' = <<"File too large (2000.0MB).">> /\ error' # error) =>
          /\ errorDetails' = <<"The limit is 2000MB.">>
          /\ file' = file
          /\ \A r \in RunIds : runs'[r].net = Live[r].net
    ]_vars

\* the rejection is shown while the file chosen before stays selected
C10_Witness ==
  /\ error = <<"File too large (2000.0MB).">>
  /\ errorDetails = <<"The limit is 2000MB.">>
  /\ file = 2097152000

----------------------------------------------------------------------------
(* The stages of a run *)

\* the stage of section 4.6 that a label of the loading panel shows; inline
\* encoding has no stage of its own and belongs to the preparation
StageOf(label) ==
  IF label \in {"Preparing video...", "Encoding video (Inline)..."}
    THEN "Preparing"
  ELSE IF label = "Uploading to Secure Storage..." THEN "Uploading"
  ELSE IF label = "Processing video content..." THEN "ProcessingRemote"
  ELSE IF label = "Analyzing movements & structure..." THEN "Analyzing"
  ELSE IF label = "Retrying analysis (Attempt 2/3)..." THEN "Retrying(1)"
  ELSE IF label = "Retrying analysis (Attempt 3/3)..." THEN "Retrying(2)"
  ELSE "other"

\* the stages the run r has entered, in the order it entered them
StagePath(r) == [i \in 1..Len(runs[r].stages) |-> StageOf(runs[r].stages[i])]

IsPrefix(s, t) == Len(s) <= Len(t) /\ SubSeq(t, 1, Len(s)) = s

InlinePath ==
  <<"Preparing", "Preparing", "Analyzing", "Retrying(1)", "Retrying(2)">>

RemotePath ==
  <<"Preparing", "Uploading", "ProcessingRemote", "Analyzing", "Retrying(1)",
    "Retrying(2)">>

NetRank(op) ==
  IF op = "start" THEN 1 ELSE IF op = "bytes" THEN 2
  ELSE IF op = "status" THEN 3 ELSE 4

Succeeded(r) == runs[r].pc = "done" /\ runs[r].err = NoErr

Failed(r) == runs[r].pc = "done" /\ runs[r].err # NoErr

\* the part of C11 that speaks of one run alone
RunPath(r) ==
  /\ runs[r].pc # "idle" =>
       /\ Len(runs[r].stages) >= 2
       /\ \/ IsPrefix(StagePath(r), InlinePath)
          \/ IsPrefix(StagePath(r), RemotePath)
  /\ runs[r].calls > 0 => \E i \in 1..Len(runs[r].stages) :
                             StagePath(r)[i] = "Analyzing"
  /\ Succeeded(r) => analysisData # JsNull /\ ~isAnalyzing
  /\ Failed(r) => error = <<"Analysis Failed">> /\ ~isAnalyzing
  /\ \A i, j \in 1..Len(runs[r].net) :
        /\ i < j => NetRank(runs[r].net[i]) <= NetRank(runs[r].net[j])
        /\ (i < j /\ runs[r].net[j] \in {"start", "bytes"}) =>
              runs[r].net[i] # runs[r].net[j]
  /\ (Succeeded(r) /\ runs[r].file > 20971520) =>
        /\ Len(runs[r].net) >= 4
        /\ SubSeq(runs[r].net, 1, 3) = <<"start", "bytes", "status">>
        /\ runs[r].net[Len(runs[r].net)] = "infer"

\* C11: the stages a run enters are, in order, an initial part of Preparing,
\* (Uploading, ProcessingRemote, or nothing), Analyzing, Retrying(1),
\* Retrying(2), and the run ends Succeeded or Failed; the stage shown while
\* the run is active is the last one it entered; the network operations of a
\* run are ordered session start, byte transfer, status checks, inference.
C11_StageOrder ==
  \A r \in RunIds :
     /\ RunPath(r)
     /\ Active(r) => /\ isAnalyzing
                     /\ loadingStage = runs[r].stages[Len(runs[r].stages)]

\* scenario B: PROCESSING, ACTIVE, one inference call, success
C11_Witness ==
  \E r \in RunIds :
     /\ Succeeded(r)
     /\ runs[r].polls = <<"PROCESSING", "ACTIVE">>
     /\ runs[r].net = <<"start", "bytes", "status", "status", "infer">>
     /\ StagePath(r) =
          <<"Preparing", "Uploading", "ProcessingRemote", "Analyzing">>

\* the per-run part of C11 for every run
AllRunPaths == \A r \in RunIds : RunPath(r)

----------------------------------------------------------------------------
(* Failures *)

\* the positions a continuation that does not end the run may lead to
Forward(pc) ==
  IF pc = "uploadStart" THEN {"uploadBytes"}
  ELSE IF pc = "uploadBytes" THEN {"pollSleep"}
  ELSE IF pc = "pollSleep" THEN {"getFileState"}
  ELSE IF pc = "getFileState" THEN {"pollSleep", "generateContent"}
  ELSE IF pc = "encoding" THEN {"generateContent"}
  ELSE IF pc = "generateContent" THEN {"backoff"}
  ELSE IF pc = "backoff" THEN {"generateContent"}
  ELSE {}

----------------------------------------------------------------------------
(* Success *)

\* the extractor succeeded on the text the run r received
Extracted(r) ==
  /\ runs[r].pc = "done"
  /\ runs[r].responseText # <<>>
  /\ tryParseJSON(runs[r].responseText).ok

\* C13 as stated: a run whose extractor succeeds ends Succeeded, with the
\* extracted value stored and progress at 100.
C13_RunSuccess ==
  \A r \in RunIds :
     Extracted(r) =>
       /\ Succeeded(r)
       /\ error # <<"Analysis Failed">>
       /\ analysisData = tryParseJSON(runs[r].responseText).value
       /\ progress = 1000

----------------------------------------------------------------------------
(* The reset at the start of a run *)

\* the run r starts in this step
Starts(r) == ~Active(r) /\ runs'[r].pc \in {"uploadStart", "encoding"}

\* C14 as stated: when a run starts, the result, the raw text, the failure
\* reason and detail, the retry counter and the progress value are reset, and
\* the run has issued at most its first request.
C14_RunStartReset ==
  [][\A r \in RunIds :
       Starts(r) =>
         /\ analysisData' = JsNull
         /\ rawResponse' = <<>>
         /\ error' = <<>>
         /\ errorDetails' = <<>>
         /\ retryCount' = 0
         /\ progress' = 0
         /\ isAnalyzing'
         /\ runs'[r].net \in {<<>>, <<"start">>}
    ]_vars

----------------------------------------------------------------------------
(* The upload transport *)

\* C15: a session start answered with a non-success status (403, body
\* "denied") fails the upload with an error carrying the status and the body,
\* one answered without the session-URL header fails it with an error saying
\* so, and in both cases the run ends Failed having issued the session-start
\* request alone: no byte transfer, no status check, no inference call.
C15_SessionStartFailure ==
  \A r \in RunIds :
     /\ runs[r].started \in {"notOk", "noUrl"} =>
          /\ Failed(r)
          /\ runs[r].net = <<"start">>
          /\ runs[r].calls = 0
          /\ runs[r].polls = <<>>
          /\ error = <<"Analysis Failed">>
          /\ errorDetails = runs[r].err.message
     /\ runs[r].started = "notOk" =>
          runs[r].err.message = <<"Upload init failed (403): denied">>
     /\ runs[r].started = "noUrl" =>
          runs[r].err.message = <<"No upload URL returned from Google.">>

C15_Witness ==
  \E r \in RunIds :
     /\ runs[r].started = "notOk"
     /\ runs[r].net = <<"start">>
     /\ errorDetails = <<"Upload init failed (403): denied">>

\* how many times the run r has issued the request op
Issued(r, op) ==
  Cardinality({i \in 1..Len(runs[r].net) : runs[r].net[i] = op})

\* C16: a run issues at most one session-start request and at most one
\* byte-transfer request; the byte transfer is sent to the session URL that
\* the run's own session start returned; when the byte transfer fails the run
\* ends without issuing any further request.
C16_UploadOnce ==
  [][\A r \in RunIds :
       /\ Issued(r, "start")' <= 1
       /\ Issued(r, "bytes")' <= 1
       /\ Issued(r, "bytes")' = 1 =>
            /\ runs'[r].started = "ok"
            /\ runs'[r].putUrl = runs'[r].uploadUrl
            /\ runs'[r].putUrl \in
                 {"https://upload/session/1", "https://upload/session/2"}
       /\ Issued(r, "bytes")' = 0 => runs'[r].putUrl = ""
       /\ (runs[r].pc = "uploadStart" /\ runs'[r].pc = "uploadBytes") =>
            \E out \in UploadStartOutcomes :
               out.kind = "ok" /\ runs'[r].putUrl = out.url
       /\ runs[r].pc = "uploadBytes" =>
            /\ runs'[r].putUrl = runs[r].putUrl
            /\ runs'[r].pc \in {"uploadBytes", "pollSleep", "done"}
            /\ runs'[r].pc = "done" =>
                 /\ runs'[r].net = <<"start", "bytes">>
                 /\ runs'[r].err # NoErr
    ]_vars

\* a byte transfer to the second session URL was answered 500
C16_Witness ==
  \E r \in RunIds :
     /\ Failed(r)
     /\ runs[r].net = <<"start", "bytes">>
     /\ runs[r].putUrl = "https://upload/session/2"
     /\ errorDetails = <<"Upload bytes failed (500): oops">>

----------------------------------------------------------------------------
(* The retry ordinal *)

\* the label that announces the retry number n
RetryLabel(n) ==
  IF n = 1 THEN "Retrying analysis (Attempt 2/3)..."
  ELSE IF n = 2 THEN "Retrying analysis (Attempt 3/3)..."
  ELSE "none"

\* the part of C17 that speaks of one run alone: the step that issues the
\* call number k + 1 > 1 sets the retry ordinal to k and shows its label
RetryAnnounced(r) ==
  /\ (runs[r].pc = "backoff" /\ runs'[r].pc = "generateContent") =>
        /\ runs'[r].calls = runs[r].calls + 1
        /\ retryCount' = runs[r].calls
        /\ retryCount' \in {1, 2}
        /\ loadingStage' = RetryLabel(retryCount')
        /\ runs'[r].stages = Append(runs[r].stages, RetryLabel(retryCount'))
  /\ (runs[r].pc \in {"encoding", "getFileState"}
        /\ runs'[r].pc = "generateContent") =>
        /\ runs'[r].calls = 1
        /\ retryCount' = retryCount
  /\ (runs'[r].pc = "done" /\ runs'[r].err = NoErr /\ runs'[r].calls = 3) =>
        SubSeq(runs'[r].stages, Len(runs'[r].stages) - 2,
               Len(runs'[r].stages)) =
          <<"Analyzing movements & structure...",
            "Retrying analysis (Attempt 2/3)...",
            "Retrying analysis (Attempt 3/3)...">>

\* C17: the step that issues the inference call number k + 1 (k = 1, 2)
\* sets the retry ordinal to k and shows the label of that retry; the first
\* call leaves the ordinal at 0; while the run is active the ordinal shown is
\* the number of retries it has made, so a run that succeeds at its third
\* call has shown Analyzing, Retrying(1), Retrying(2) and nothing else.
C17_RetryOrdinal ==
  [][\A r \in RunIds :
       /\ RetryAnnounced(r)
       /\ (runs'[r].pc \notin {"idle", "done"} /\ runs'[r].calls = 0) =>
             retryCount' = 0
       /\ runs'[r].calls > 0 => retryCount' = runs'[r].calls - 1
    ]_vars

\* two retries, then success
C17_Witness ==
  \E r \in RunIds :
     /\ Succeeded(r)
     /\ runs[r].calls = 3
     /\ retryCount = 2
     /\ StagePath(r) = <<"Preparing", "Preparing", "Analyzing", "Retrying(1)",
                         "Retrying(2)">>

\* the per-run part of C17 for every run
AllRetriesAnnounced == [][\A r \in RunIds : RetryAnnounced(r)]_vars

----------------------------------------------------------------------------
(* The extractor *)

\* the interior of the fenced block of text parses
FencedParses(text) ==
  MarkdownMatch(text).found /\ JSONParse(MarkdownMatch(text).inner).ok

\* text has both braces and the characters from its first opening brace to
\* its last closing brace parse
BracesParse(text) ==
  /\ \E i \in 1..Len(text) : text[i] = "{"
  /\ \E i \in 1..Len(text) : text[i] = "}"
  /\ JSONParse(Substring(text, IndexOf(text, "{"),
                          LastIndexOf(text, "}") + 1)).ok

AllThreeFail(text) ==
  ~JSONParse(text).ok /\ ~FencedParses(text) /\ ~BracesParse(text)

\* the run r has ended on a text that is not empty and defeats all three
\* parsing attempts
Unparseable(r) ==
  /\ runs[r].pc = "done"
  /\ runs[r].responseText # <<>>
  /\ AllThreeFail(runs[r].responseText)

\* the part of C18 that speaks of one run alone: the step that ends it
\* stores no result and keeps the raw text
ExtractionFails(r) ==
  Unparseable(r)' =>
    /\ runs[r].pc = "generateContent"
    /\ runs'[r].err.message = <<"Could not parse JSON from response.">>
    /\ error' = <<"Analysis Failed">>
    /\ errorDetails' = <<"Could not parse JSON from response.">>
    /\ analysisData' = analysisData
    /\ rawResponse' = runs'[r].responseText
    /\ ~isAnalyzing'

AllExtractionsFail == [][\A r \in RunIds : ExtractionFails(r)]_vars

BraceSlice(text) ==
  IF IndexOf(text, "{") = -1 \/ LastIndexOf(text, "}") = -1 THEN <<>>
  ELSE SubSeq(text, IndexOf(text, "{") + 1, LastIndexOf(text, "}") + 1)

\* the three strategies in their order, the first that parses giving the
\* result
FirstThatParses(text) ==
  IF JSONParse(text).ok THEN JSONParse(text)
  ELSE IF FencedParses(text) THEN JSONParse(MarkdownMatch(text).inner)
  ELSE IF JSONParse(BraceSlice(text)).ok THEN JSONParse(BraceSlice(text))
  ELSE [ok |-> FALSE]

\* C19 as stated: the extractor gives the result of the first of (1) the
\* whole text, (2) the interior of a fenced block, (3) the characters from
\* the first opening brace to the last closing brace, that parses, and fails
\* when none does.
C19_FallbackOrder ==
  \A r \in RunIds :
     (runs[r].pc = "done" /\ runs[r].responseText # <<>>) =>
       LET res == FirstThatParses(runs[r].responseText) IN
       /\ ~res.ok =>
            runs[r].err.message = <<"Could not parse JSON from response.">>
       /\ res.ok =>
            /\ runs[r].err.message # <<"Could not parse JSON from response.">>
            /\ analysisData = res.value

\* the documents whose texts the inference call may return
Docs ==
  { [kind |-> "object", members |-> m] :
      m \in {<<"P", "T">>, <<"T">>, <<"m">>, <<"P">>} }

\* JSON.stringify of a document: its members, separated by commas, in braces
Serialize(doc) ==
  <<"{">>
    \o [i \in 1..(2 * Len(doc.members) - 1) |->
          IF i % 2 = 1 THEN doc.members[(i + 1) \div 2] ELSE ","]
    \o <<"}">>

Wrappings == {"bare", "fenced", "prose", "bracedProse"}

\* the text of a document as such, in a tagged fenced block, between two
\* words of prose, and after prose that has braces of its own
Wrap(w, doc) ==
  IF w = "bare" THEN Serialize(doc)
  ELSE IF w = "fenced"
    THEN <<"fence", "json", " ">> \o Serialize(doc) \o <<" ", "fence">>
  ELSE IF w = "prose" THEN <<"x", " ">> \o Serialize(doc) \o <<" ", "x">>
  ELSE <<"{", "x", "}", " ">> \o Serialize(doc)

\* C20 as stated: a run whose response text is the serialization of a
\* document, bare, in a fenced block, or with prose around it (prose with
\* braces included), extracts that document.
C20_RoundTrip ==
  \A r \in RunIds : \A doc \in Docs : \A w \in Wrappings :
     (runs[r].pc = "done" /\ runs[r].responseText = Wrap(w, doc)) =>
        /\ Succeeded(r)
        /\ analysisData = doc

----------------------------------------------------------------------------
(* Runs after runs *)

\* C21: a run that has ended takes no further step; every run, a run started
\* on the failure of an earlier one included, starts from Preparing with no
\* session URL, no asset handle and no status read, and on the remote path
\* its first request is a session start of its own; the session URL it sends
\* its bytes to comes from that session start and the asset it hands to the
\* inference call from its own byte transfer.
C21_FullRerun ==
  [][\A r \in RunIds :
       /\ runs[r].pc = "done" =>
            runs'[r].pc \in {"idle", "uploadStart", "encoding"}
       /\ Starts(r) =>
            /\ runs'[r].stages[1] = "Preparing video..."
            /\ runs'[r].uploadUrl = ""
            /\ runs'[r].putUrl = ""
            /\ runs'[r].fileName = ""
            /\ runs'[r].fileUri = ""
            /\ runs'[r].polls = <<>>
            /\ runs'[r].calls = 0
            /\ runs'[r].contentPart = "none"
            /\ IF runs'[r].file > 20971520
                 THEN runs'[r].pc = "uploadStart" /\ runs'[r].net = <<"start">>
                 ELSE runs'[r].pc = "encoding" /\ runs'[r].net = <<>>
       /\ runs'[r].putUrl # "" =>
            SubSeq(runs'[r].net, 1, 2) = <<"start", "bytes">>
       /\ runs'[r].contentPart = "fileData" =>
            /\ runs'[r].fileUri = "https://files/abc"
            /\ SubSeq(runs'[r].net, 1, 3) = <<"start", "bytes", "status">>
    ]_vars

\* a run started by Try Again on a failed run has opened a session of its
\* own and is sending its bytes to it
C21_Witness ==
  \E r \in RunIds :
     /\ runs[r].rerun
     /\ runs[r].pc = "uploadBytes"
     /\ runs[r].net = <<"start", "bytes">>
     /\ runs[r].putUrl = "https://upload/session/2"

----------------------------------------------------------------------------
(* Progress *)

\* C22 as stated: while a run is active, the retry steps included, no step
\* lowers the progress value.
C22_ProgressMonotone ==
  [][\A r \in RunIds : Active(r) => progress' >= progress]_vars

----------------------------------------------------------------------------
(* The uploaded asset *)

\* C23 as stated: at most one inference request of a remote run refers to
\* the uploaded asset.
C23_HandleUsedOnce ==
  \A r \in RunIds :
     Cardinality({i \in 1..Len(runs[r].refs) :
                    runs[r].refs[i] = "https://files/abc"}) <= 1

\* C23: every inference request of a remote run, the first and the retries
\* (three at most), refers to the one asset that the run's own byte transfer
\* returned; no request of an inline run refers to an asset.
C23_HandleUsedByOneRun ==
  \A r \in RunIds :
     /\ Len(runs[r].refs) = runs[r].calls
     /\ Len(runs[r].refs) <= 3
     /\ \A i \in 1..Len(runs[r].refs) :
          IF runs[r].file > 20971520
            THEN /\ runs[r].refs[i] = "https://files/abc"
                 /\ runs[r].refs[i] = runs[r].fileUri
                 /\ Issued(r, "bytes") = 1
            ELSE runs[r].refs[i] = "inlineData"

\* the third request of a remote run
C23_Witness ==
  \E r \in RunIds :
     /\ runs[r].file > 20971520
     /\ runs[r].pc = "generateContent"
     /\ runs[r].refs =
          <<"https://files/abc", "https://files/abc", "https://files/abc">>

----------------------------------------------------------------------------
(* The stored result *)

\* C24 as stated: in every state in which a result is stored, no run is
\* active and the component is not analyzing.
C24_ResultOnlyTerminal ==
  analysisData # JsNull => (ActiveRuns = {} /\ ~isAnalyzing)

\* C25 as stated: while a run is active progress is at least 0 and below 90,
\* and it is 100 only when no run is active.
C25_ProgressBelow90 ==
  /\ ActiveRuns # {} => (0 <= progress /\ progress < 900)
  /\ progress = 1000 => ActiveRuns = {}

\* C25: while the component is analyzing progress is between 0 and 90, both
\* included (the timer stops at 90 and shows 90 during retries); when it is
\* not analyzing progress is 100, and it becomes 100 only in the step that
\* ends a run.
C25_ProgressCap ==
  [][/\ isAnalyzing' => (0 <= progress' /\ progress' <= 900)
     /\ ~isAnalyzing' => progress' = 1000
     /\ (progress' = 1000 /\ progress # 1000) =>
          \E r \in RunIds : Active(r) /\ runs'[r].pc = "done"
    ]_vars

\* the timer has reached its cap
C25_Witness ==
  /\ isAnalyzing
  /\ ActiveRuns # {}
  /\ retryCount = 0
  /\ progress = 900

----------------------------------------------------------------------------
(* Order of the network operations *)

\* the requests of the run r that have been sent and not yet answered
InFlight(r) == Len(runs[r].net) - runs[r].returned

\* C26: a run has at most one request in flight, and has one exactly while
\* it awaits the session start, the byte transfer, a status check or an
\* inference call; it sends a request only when all its earlier requests
\* have been answered; the status checks sent are as many as the 2-second
\* delays completed, and each is sent after the answer to the one before.
C26_SequentialOperations ==
  [][\A r \in RunIds :
       /\ InFlight(r)' \in {0, 1}
       /\ InFlight(r)' = 1 <=>
            runs'[r].pc \in {"uploadStart", "uploadBytes", "getFileState",
                             "generateContent"}
       /\ (Active(r) /\ runs'[r].net # runs[r].net) =>
            /\ Len(runs'[r].net) = Len(runs[r].net) + 1
            /\ runs'[r].returned = Len(runs[r].net)
       /\ \A i \in 1..Len(runs'[r].sleeps) : runs'[r].sleeps[i] = 2000
       /\ Issued(r, "status")' =
            Len(runs'[r].sleeps) - (IF runs'[r].pc = "pollSleep" THEN 1 ELSE 0)
       /\ (runs[r].pc = "pollSleep" /\ runs'[r].pc = "getFileState") =>
            /\ Issued(r, "status")' = Issued(r, "status") + 1
            /\ runs[r].returned = Len(runs[r].net)
            /\ Len(runs[r].polls) = Issued(r, "status")
    ]_vars

\* the second status check is in flight, after two delays and the answer
\* to the first
C26_Witness ==
  \E r \in RunIds :
     /\ runs[r].pc = "getFileState"
     /\ runs[r].net = <<"start", "bytes", "status", "status">>
     /\ runs[r].returned = 3
     /\ runs[r].sleeps = <<2000, 2000>>
     /\ runs[r].polls = <<"PROCESSING">>

----------------------------------------------------------------------------
(* Runs that have been overtaken *)

\* since the run r started another file was selected, or another run is
\* in flight beside it
Overtaken(r) ==
  /\ Active(r)
  /\ \/ runs[r].file # file
     \/ \E q \in RunIds \ {r} : Active(q)

\* C27 as stated: a step of a run that has been overtaken writes neither a
\* result, nor a raw text, nor a failure, nor a stage.
C27_NoLateOverwrite ==
  [][\A r \in RunIds :
       (Overtaken(r) /\ runs'[r] # runs[r]) =>
          /\ analysisData' = analysisData
          /\ rawResponse' = rawResponse
          /\ error' = error
          /\ errorDetails' = errorDetails
          /\ loadingStage' = loadingStage
    ]_vars

----------------------------------------------------------------------------
(* Inline runs *)

\* the run r has entered a stage of the upload protocol or has issued one of
\* its requests or has slept between status checks
UsedUpload(r) ==
  \/ \E i \in 1..Len(runs[r].stages) :
        StageOf(runs[r].stages[i]) \in {"Uploading", "ProcessingRemote"}
  \/ \E i \in 1..Len(runs[r].net) :
        runs[r].net[i] \in {"start", "bytes", "status"}
  \/ runs[r].sleeps # <<>>
  \/ runs[r].polls # <<>>
  \/ runs[r].started # "none"

\* C28: only a run whose file is larger than the inline limit enters the
\* Uploading or ProcessingRemote stage or issues a session-start, byte-transfer
\* or status-check request, and every such run does; a run of a smaller file
\* issues inference requests only, holds no session URL, no asset name and no
\* asset URI, and each of its inference requests carries the inline data.
C28_InlineSkipsUpload ==
  \A r \in RunIds :
     runs[r].pc # "idle" =>
       /\ UsedUpload(r) <=> isLargeFile(runs[r].file)
       /\ ~isLargeFile(runs[r].file) =>
            /\ Issued(r, "infer") = Len(runs[r].net)
            /\ Len(runs[r].refs) = Len(runs[r].net)
            /\ \A i \in 1..Len(runs[r].refs) : runs[r].refs[i] = "inlineData"
            /\ runs[r].uploadUrl = ""
            /\ runs[r].putUrl = ""
            /\ runs[r].fileName = ""
            /\ runs[r].fileUri = ""
            /\ StagePath(r) \in {SubSeq(InlinePath, 1, n) : n \in 2..5}

\* the third request of an inline run of a file of exactly the limit
C28_Witness ==
  \E r \in RunIds :
     /\ runs[r].file = INLINE_LIMIT
     /\ runs[r].pc = "generateContent"
     /\ runs[r].net = <<"infer", "infer", "infer">>
     /\ runs[r].refs = <<"inlineData", "inlineData", "inlineData">>

----------------------------------------------------------------------------
(* Writes of the result *)

\* the step stores a result: the run r leaves its inference call with a text
\* from which a value other than null was extracted, and that value is stored
StoresResult(r) ==
  /\ runs[r].pc = "generateContent"
  /\ runs'[r].pc = "done"
  /\ runs'[r].responseText # <<>>
  /\ tryParseJSON(runs'[r].responseText).ok
  /\ analysisData' = tryParseJSON(runs'[r].responseText).value

\* C29 as stated: the stored result becomes non-empty only in the step in
\* which a run ends its inference call with an extracted value, which is
\* stored whole, and only when no result is stored; a stored result changes
\* only by being cleared, in a step that is no continuation of a run (a run
\* start or a file selection).
C29_WrittenOnce ==
  [][/\ (analysisData' # analysisData /\ analysisData' # JsNull) =>
          /\ analysisData = JsNull
          /\ \E r \in RunIds : StoresResult(r)
     /\ (analysisData' # analysisData /\ analysisData # JsNull) =>
          /\ analysisData' = JsNull
          /\ \A r \in RunIds : Active(r) => runs'[r] = runs[r]
    ]_vars

----------------------------------------------------------------------------
(* Termination *)

\* C30: when every awaited operation settles and the server answers
\* PROCESSING finitely often, every run that has started ends, succeeded or
\* failed, with the analyzing flag released; and the poll loop has no bound
\* of its own: whenever a status check answers PROCESSING the run sleeps and
\* checks again, however often it has done so.
C30_RunTermination ==
  /\ \A r \in RunIds :
        Active(r) ~> ((Succeeded(r) \/ Failed(r)) /\ ~isAnalyzing)
  /\ [][\A r \in RunIds :
          (/\ runs[r].pc = "getFileState"
           /\ runs'[r].polls = Append(runs[r].polls, "PROCESSING")) =>
             /\ runs'[r].pc = "pollSleep"
             /\ isAnalyzing' = isAnalyzing
       ]_vars

\* a remote run that was answered PROCESSING as often as the server may, and
\* whose three inference attempts were used, has ended
C30_Witness ==
  \E r \in RunIds :
     /\ runs[r].pc = "done"
     /\ ~isAnalyzing
     /\ Len(runs[r].polls) = MaxProcessing + 1
     /\ \A i \in 1..MaxProcessing : runs[r].polls[i] = "PROCESSING"
     /\ runs[r].calls = MAX_RETRIES

----------------------------------------------------------------------------
(* The asset of a remote run *)

\* the step issues an inference request of the run r
IssuesInference(r) ==
  /\ Active(r)
  /\ Len(runs'[r].net) = Len(runs[r].net) + 1
  /\ runs'[r].net[Len(runs'[r].net)] = "infer"

\* C31: whenever a run of a file above the inline limit issues an inference
\* request, the first or a retry, its one byte transfer has been answered
\* with the name and the URI of an asset, every status check it sent has been
\* answered and the last answer was ACTIVE, and the request carries that URI.
C31_ReadyAsset ==
  [][\A r \in RunIds :
       (IssuesInference(r) /\ isLargeFile(runs[r].file)) =>
          /\ Issued(r, "bytes") = 1
          /\ runs'[r].fileName # ""
          /\ runs'[r].fileUri # ""
          /\ runs'[r].polls # <<>>
          /\ runs'[r].polls[Len(runs'[r].polls)] = "ACTIVE"
          /\ Len(runs'[r].polls) = Issued(r, "status")
          /\ runs'[r].refs[Len(runs'[r].refs)] = runs'[r].fileUri
    ]_vars

\* a retry of a remote run whose status checks were answered PROCESSING and
\* then ACTIVE
C31_Witness ==
  \E r \in RunIds :
     /\ runs[r].pc = "generateContent"
     /\ runs[r].polls = <<"PROCESSING", "ACTIVE">>
     /\ runs[r].net = <<"start", "bytes", "status", "status", "infer", "infer">>
     /\ runs[r].refs = <<"https://files/abc", "https://files/abc">>

----------------------------------------------------------------------------
(* The outcome of a run *)

\* C32 as stated: in the state in which a run has finished and no run is
\* active, either a result is stored and no failure reason is set, or a
\* failure reason is set and no result is stored.
C32_OutcomeExclusive ==
  \A r \in RunIds :
     (runs[r].pc = "done" /\ ActiveRuns = {}) =>
        \/ analysisData # JsNull /\ error = Null
        \/ analysisData = JsNull /\ error # Null

----------------------------------------------------------------------------
(* The empty response *)

\* the step in which the inference call of the run r resolves, not rejects,
\* with the empty text
EmptyResolves(r) ==
  /\ runs[r].pc = "generateContent"
  /\ runs'[r].pc = "done"
  /\ runs'[r].responseText = <<>>
  /\ runs'[r].returned = runs[r].returned + 1
  /\ runs'[r].err \notin InferErrors

\* C33: when an inference call resolves with the empty text, on the first
\* attempt or on a retry, the run ends in that step with the reason Analysis
\* Failed and the detail Empty response from AI., the analyzing flag
\* released; it issues no further request, counts no further attempt and
\* awaits no further delay; no result is stored and the raw text is empty.
C33_EmptyTerminal ==
  [][\A r \in RunIds :
       EmptyResolves(r) =>
          /\ runs'[r].err = MkError("Empty response from AI.")
          /\ error' = <<"Analysis Failed">>
          /\ errorDetails' = <<"Empty response from AI.">>
          /\ ~isAnalyzing'
          /\ runs'[r].net = runs[r].net
          /\ runs'[r].calls = runs[r].calls
          /\ runs'[r].attempt = runs[r].attempt
          /\ runs'[r].delays = runs[r].delays
          /\ retryCount' = retryCount
          /\ loadingStage' = loadingStage
          /\ analysisData' = JsNull
          /\ rawResponse' = <<>>
    ]_vars

\* the second attempt of a run, after one retryable failure, was answered
\* with the empty text
C33_Witness ==
  \E r \in RunIds :
     /\ runs[r].pc = "done"
     /\ runs[r].err = MkError("Empty response from AI.")
     /\ runs[r].calls = 2
     /\ Len(runs[r].delays) = 1
     /\ rawResponse = <<>>
     /\ analysisData = JsNull

----------------------------------------------------------------------------
(* The rejected selection *)

\* the reasons shown for the files of the model that are above the ceiling
TooLargeReasons ==
  { <<"File too large (" \o ToFixed1MB(size) \o "MB).">> :
      size \in {sz \in FileSizes : sz > MAX_FILE_SIZE_MB * 1024 * 1024} }

\* the step sets the reason of a file above the ceiling: no run takes a step
\* and none starts
RejectsSelection ==
  /\ error' \in TooLargeReasons
  /\ error' # error
  /\ \A r \in RunIds : Active(r) => runs'[r] = runs[r]
  /\ \A r \in RunIds : ~Starts(r)

\* C34: the step that rejects a file above the ceiling sets the reason and the
\* detail and changes nothing else: the selected file, the stored result, the
\* raw text, the analyzing flag, the stage, the progress and the retry counter
\* are as before.  A run that starts while that reason is shown runs on the
\* selected file, which is not above the ceiling, and leaves it selected.
C34_RejectedSelection ==
  [][/\ RejectsSelection =>
          /\ errorDetails' = <<"The limit is 2000MB.">>
          /\ file' = file
          /\ analysisData' = analysisData
          /\ rawResponse' = rawResponse
          /\ isAnalyzing' = isAnalyzing
          /\ activeTab' = activeTab
          /\ loadingStage' = loadingStage
          /\ progress' = progress
          /\ retryCount' = retryCount
     /\ \A r \in RunIds :
          (Starts(r) /\ error \in TooLargeReasons) =>
             /\ file # NoFile
             /\ file <= MAX_FILE_SIZE_MB * 1024 * 1024
             /\ runs'[r].file = file
             /\ file' = file
    ]_vars

\* a file above the ceiling was rejected while the result of a run on the
\* 5 MiB file is stored
C34_Witness ==
  /\ error \in TooLargeReasons
  /\ errorDetails = <<"The limit is 2000MB.">>
  /\ file = 5 * MiB
  /\ analysisData # JsNull
  /\ rawResponse # <<>>
  /\ ~isAnalyzing

----------------------------------------------------------------------------
(* Missing preconditions *)

\* the step sets the reason of the missing API key
ReportsMissingKey ==
  /\ error' = <<"API Key Missing">>
  /\ error' # error

\* C35: while no file is selected no run is or was ever started: nothing is
\* analyzing, no invocation has left its first line, no result and no raw text
\* is stored and the only reason shown is that of a rejected selection.  With
\* a file and without an API key, runAnalysis sets the reason API Key Missing
\* and its detail and nothing else: no run starts, no request is sent, the
\* flag, the stage, the progress, the result, the raw text and the retry
\* counter are as before; and no run is ever active without an API key.
C35_NoRunWithoutPrecondition ==
  /\ [](file = NoFile =>
          /\ ~isAnalyzing
          /\ \A r \in RunIds : runs[r] = IdleRun
          /\ analysisData = JsNull
          /\ rawResponse = <<>>
          /\ loadingStage = "Initializing..."
          /\ error \in {Null} \cup TooLargeReasons)
  /\ [](apiKey = "" =>
          /\ ~isAnalyzing
          /\ \A r \in RunIds : runs[r] = IdleRun)
  /\ [][ReportsMissingKey =>
          /\ apiKey = ""
          /\ file # NoFile
          /\ errorDetails' = <<"process.env.API_KEY is not set.">>
          /\ \A r \in RunIds : runs'[r] = IdleRun
          /\ UNCHANGED <<apiKey, file, isAnalyzing, analysisData, rawResponse,
                         activeTab, progress, loadingStage, retryCount>>
       ]_vars

\* RUN EXPERT ANALYSIS was pressed with a file selected and no API key
C35_Witness ==
  /\ apiKey = ""
  /\ file # NoFile
  /\ error = <<"API Key Missing">>
  /\ errorDetails = <<"process.env.API_KEY is not set.">>
  /\ ~isAnalyzing
  /\ progress = 1000

----------------------------------------------------------------------------
(* Progress at rest *)

\* C36: in every state in which no run is active, before the first run and
\* after a run has succeeded or failed, the analyzing flag is released, the
\* progress is 100 and the interval of the progress effect cannot fire; the
\* interval can fire only in states in which a run is active.
C36_ProgressAtRest ==
  /\ ActiveRuns = {} =>
       /\ ~isAnalyzing
       /\ progress = 1000
       /\ ~ENABLED Tick
  /\ ENABLED Tick => ActiveRuns # {}

\* a run has failed after three attempts, its progress held at 90 by the
\* retries, and the progress is back at 100
C36_Witness ==
  \E r \in RunIds :
     /\ Failed(r)
     /\ runs[r].calls = MAX_RETRIES
     /\ retryCount = MAX_RETRIES - 1
     /\ ActiveRuns = {}
     /\ progress = 1000

====
